---- MODULE Spec2Model ----
(***************************************************************************)
(* kv: a command-line key/value store persisted in one JSON file, with     *)
(* named shell commands and hooks (src/src/main.rs).                       *)
(*                                                                         *)
(* Every invocation of the binary is one process of the model.  A process  *)
(* walks through `run` (main.rs:213-332) statement group by statement      *)
(* group; every access to the shared backing file (a load, the truncate    *)
(* and the write of `write_file`) is a step of its own, so the steps of    *)
(* two invocations interleave the way the steps of two operating-system    *)
(* processes do.  File-system calls and the spawning of the shell are      *)
(* taken to succeed (the `unwrap`s of get_file/write_file and the error    *)
(* branch of run_command are environment failures and are not modelled).   *)
(*                                                                         *)
(* Four specifications run the same steps: SpecSeq is one shell running    *)
(* any command lines one after the other, Spec is two shells whose         *)
(* invocations overlap, SpecEdit is one shell running the command lines    *)
(* that edit the store, and SpecFound is one shell that starts on a file   *)
(* it finds, whole or malformed.                                           *)
(***************************************************************************)
EXTENDS Integers, Sequences, FiniteSets, TLC

VARIABLES
    file,       \* content of <config-dir>/kv/kv.json
    pc,         \* pc[p]: position of invocation p in main/run
    op,         \* op[p]: the parsed command line (ArgMatches) of invocation p
    kvstore,    \* kvstore[p]: the `kvstore` local that is live at pc[p]
    value,      \* value[p]: the `value` local of the del branch
    out,        \* out[p]: what invocation p printed and spawned, in order
    exitCode,   \* exitCode[p]: exit status of the invocation that ended at pc[p] = "done"
    saves,      \* saves[p]: completed write_file calls of invocation p
    started,    \* number of invocations started so far
    expect,     \* expect[k]: value of the last completed `set k` that no later
                \* invocation setting or deleting k has followed; else None
    snapshot,   \* snapshot[p]: the store as the load that feeds p's mutation returned it
    raced,      \* raced[p]: another invocation completed a save after that load
    gone,       \* gone[k]: a `del k` that removed a value has completed and no
                \* later invocation setting k has followed
    loads       \* loads[p]: completed get_store calls of invocation p

vars == <<file, pc, op, kvstore, value, out, exitCode, saves, started, expect,
          snapshot, raced, gone, loads>>

-----------------------------------------------------------------------------
(* Bounds of the model: the invocations one shell runs one after the other,
   the invocations two shells run at once, the invocations of a shell that
   only edits the store, the invocations that follow on a file found, the
   hooks a store may hold; and
   the names and values the command lines are made of *)

MaxInvocations == 5
MaxRacing == 2
MaxEdits == 4
MaxFound == 2
MaxHooks == 3

Procs == {1, 2}
Main == CHOOSE p \in Procs : \A q \in Procs : p <= q
Keys == {"k1", "k2"}
Vals == {"v1", "v2"}
CmdNames == {"c1", "c2"}
CmdVals == {"sh"}
HookNames == {"h1", "h2"}

-----------------------------------------------------------------------------
(* Data model, main.rs:13-35 *)

\* Option::None of Option<String>
None == "<none>"

\* enum OpType { Get, Set, Del }
Get == 0
Set == 1
Del == 2
OpType == {Get, Set, Del}

\* #[derive(Default)] KVStore.  A store is a record of kvs and cmds, each a
\* HashMap<String, String> modelled as a function that sends the absent keys
\* to None, and of hooks, a sequence of records name, cmd_name, run_on, key.
DefaultStore ==
    [kvs |-> [k \in Keys |-> None], cmds |-> [c \in CmdNames |-> None], hooks |-> <<>>]

\* impl Display for OpType
fmt(o) == CASE o = Get -> "get" [] o = Set -> "set" [] o = Del -> "del"

\* impl FromStr for OpType: the tokens that parse (Ok), and what they parse to
from_str_ok(s) == s \in {"get", "set", "del"}
from_str(s) == CASE s = "get" -> Get [] s = "set" -> Set [] s = "del" -> Del

\* Serialize that writes the Display token
SerializeOpTypeDisplay(o) == CASE o = Get -> "get" [] o = Set -> "set" [] o = Del -> "del"

\* #[derive(Serialize)] on OpType: serde writes a unit variant as its name
SerializeOpType(o) == CASE o = Get -> "Get" [] o = Set -> "Set" [] o = Del -> "Del"

\* #[derive(Deserialize)] on OpType: the variant names are the only tokens
DeserializeOpTypeOk(t) == t \in {"Get", "Set", "Del"}
DeserializeOpType(t) == CASE t = "Get" -> Get [] t = "Set" -> Set [] t = "Del" -> Del

-----------------------------------------------------------------------------
(* The backing file, main.rs:90-105 and 139-144 *)

\* to_string_pretty of a KVStore whose hooks field is skipped in serializing
to_string_pretty_skip(m) == [kvs |-> m.kvs, cmds |-> m.cmds, hooks |-> <<>>]

\* serde_json::to_string_pretty(m): the JSON document of a store
to_string_pretty(m) ==
    [kvs |-> m.kvs, cmds |-> m.cmds,
     hooks |-> [i \in 1..Len(m.hooks) |->
                 [name |-> m.hooks[i].name, cmd_name |-> m.hooks[i].cmd_name,
                  run_on |-> SerializeOpType(m.hooks[i].run_on), key |-> m.hooks[i].key]]]

\* A file is zero-length ("zero"), one whole JSON document ("doc"), or a
\* document followed by the tail of a longer one ("garbled"); a file found
\* may also be the head of a document ("truncated")
ZeroFile == [kind |-> "zero", json |-> to_string_pretty(DefaultStore)]
DocFile(m) == [kind |-> "doc", json |-> to_string_pretty(m)]
GarbledFile == [kind |-> "garbled", json |-> to_string_pretty(DefaultStore)]

\* serde_json::from_reader succeeds on one whole, well-typed document only
from_reader_ok(f) ==
    /\ f.kind = "doc"
    /\ \A i \in 1..Len(f.json.hooks) : DeserializeOpTypeOk(f.json.hooks[i].run_on)

from_reader(f) ==
    [kvs |-> f.json.kvs, cmds |-> f.json.cmds,
     hooks |-> [i \in 1..Len(f.json.hooks) |->
                 [name |-> f.json.hooks[i].name, cmd_name |-> f.json.hooks[i].cmd_name,
                  run_on |-> DeserializeOpType(f.json.hooks[i].run_on),
                  key |-> f.json.hooks[i].key]]]

\* get_store with a parser that stops at the end of what it can read, not
\* at the end of the file
get_store_lenient(f) ==
    IF \A i \in 1..Len(f.json.hooks) : DeserializeOpTypeOk(f.json.hooks[i].run_on)
    THEN from_reader(f)
    ELSE DefaultStore

\* fn get_store
get_store(f) == IF from_reader_ok(f) THEN from_reader(f) ELSE DefaultStore

\* file.write_all(s) through a fresh handle, at offset 0: on an empty file it
\* leaves s; on bytes another save wrote since this save's set_len(0) it
\* leaves s when s is at least as long, and s followed by the tail of the old
\* bytes (no JSON document) when s is shorter.  Lengths are not modelled, so
\* both outcomes are possible unless the old bytes are s itself.
write_all(f, m) ==
    IF f.kind = "zero" \/ f = DocFile(m)
    THEN {DocFile(m)}
    ELSE {DocFile(m), GarbledFile}

-----------------------------------------------------------------------------
(* Map and hook helpers, main.rs:123-192 *)

\* fn get_key
get_key(s, map) == IF s \in DOMAIN map THEN map[s] ELSE None

\* set_key that drops the insert
set_key_dropped(k, v, map) == map

\* set_key that keeps the value of a key that is in the map
set_key_or_insert(k, v, map) == IF map[k] = None THEN [map EXCEPT ![k] = v] ELSE map

\* fn set_key
set_key(k, v, map) == [map EXCEPT ![k] = v]

\* del_key that leaves the entry in the map
del_key_kept(k, map) == map

\* fn del_key: the map afterwards (HashMap::remove)
del_key(k, map) == [map EXCEPT ![k] = None]

RECURSIVE filter_hooks_any_key(_, _, _)
\* filter_hooks that compares run_on only
filter_hooks_any_key(hooks, key_name, current_op) ==
    IF hooks = <<>> THEN <<>>
    ELSE LET x == Head(hooks)
             rest == filter_hooks_any_key(Tail(hooks), key_name, current_op)
         IN IF x.run_on = current_op THEN <<x>> \o rest ELSE rest

RECURSIVE filter_hooks(_, _, _)
\* run_hooks, lines 125-129: the hooks with run_on = current_op and key = key_name
filter_hooks(hooks, key_name, current_op) ==
    IF hooks = <<>> THEN <<>>
    ELSE LET x == Head(hooks)
             rest == filter_hooks(Tail(hooks), key_name, current_op)
         IN IF x.run_on = current_op /\ x.key = key_name THEN <<x>> \o rest ELSE rest

\* name_taken that never finds the name
name_taken_never(hooks, name) == FALSE

\* add_hook, line 148: hooks.iter().filter(|x| x.name == name).count() > 0
name_taken(hooks, name) == \E i \in 1..Len(hooks) : hooks[i].name = name

\* rm_hook, line 169: hooks.iter().position(|x| x.name == name); 0 is None
position(hooks, name) ==
    IF name_taken(hooks, name)
    THEN CHOOSE i \in 1..Len(hooks) :
            /\ hooks[i].name = name
            /\ \A j \in 1..(i - 1) : hooks[j].name # name
    ELSE 0

\* Vec::swap_remove(pos): the last element takes the place of the removed one
swap_remove(hooks, pos) ==
    IF pos = Len(hooks)
    THEN SubSeq(hooks, 1, Len(hooks) - 1)
    ELSE [SubSeq(hooks, 1, Len(hooks) - 1) EXCEPT ![pos] = hooks[Len(hooks)]]

\* Vec::remove(pos)
remove(hooks, pos) == SubSeq(hooks, 1, pos - 1) \o SubSeq(hooks, pos + 1, Len(hooks))

\* Vec::push
push(hooks, h) == Append(hooks, h)

-----------------------------------------------------------------------------
(* Output records: what an invocation prints or spawns *)

\* fn print_res: println of the value, or an empty line
print_res(s) == [ev |-> "print", a |-> s, b |-> ""]
\* fn run_command: Command::new(shell).arg("-c").arg(cmd).spawn()
run_command(cmd_name, cmd) == [ev |-> "spawn", a |-> cmd_name, b |-> cmd]
\* run_hooks, line 133
bad_hook(name) == [ev |-> "badhook", a |-> name, b |-> ""]
\* the message handed to print_err / println on a rejected operation
error_msg(what, name) == [ev |-> "error", a |-> what, b |-> name]
\* print_aligned of one table of `list`
table(subject) == [ev |-> "table", a |-> subject, b |-> ""]

-----------------------------------------------------------------------------
(* Command lines, main.rs:337-449 *)

Request(kind, key, val, hook, cmd, cval, trig, subj) ==
    [kind |-> kind, key |-> key, val |-> val, hook |-> hook, cmd |-> cmd,
     cval |-> cval, trig |-> trig, subj |-> subj]

NoRequest == Request("none", None, None, None, None, None, None, None)

Requests ==
    {Request("get", k, None, None, None, None, None, None) : k \in Keys}
    \cup {Request("set", kv[1], kv[2], None, None, None, None, None) : kv \in Keys \X Vals}
    \cup {Request("del", k, None, None, None, None, None, None) : k \in Keys}
    \cup {Request("list", None, None, None, None, None, None, s) :
            s \in {"keys", "cmds", "hooks", None}}
    \cup {Request("cmd_run", None, None, None, c, None, None, None) : c \in CmdNames}
    \cup {Request("cmd_add", None, None, None, cv[1], cv[2], None, None) :
            cv \in CmdNames \X CmdVals}
    \cup {Request("del_hook", None, None, h, None, None, None, None) : h \in HookNames}
    \cup {Request("add_hook", a[4], None, a[1], a[2], None, a[3], None) :
            a \in HookNames \X CmdNames \X {"get", "set", "del"} \X Keys}

\* The command lines that edit the store under one key, one command name and
\* up to three hook names, with two values for the key and for the command
EditRequests ==
    {Request("set", "k1", v, None, None, None, None, None) : v \in Vals}
    \cup {Request("del", "k1", None, None, None, None, None, None)}
    \cup {Request("cmd_add", None, None, None, "c1", cv, None, None) : cv \in {"sh", "ls"}}
    \cup {Request("del_hook", None, None, h, None, None, None, None) : h \in {"h1", "h2", "h3"}}
    \cup {Request("add_hook", "k1", None, a[1], "c1", None, a[2], None) :
            a \in {"h1", "h2", "h3"} \X {"get", "set", "del"}}

-----------------------------------------------------------------------------
(* Initial state: no invocation has run, the file does not exist yet and is
   created empty by the first get_file *)

Init ==
    /\ file = ZeroFile
    /\ pc = [p \in Procs |-> "idle"]
    /\ op = [p \in Procs |-> NoRequest]
    /\ kvstore = [p \in Procs |-> DefaultStore]
    /\ value = [p \in Procs |-> None]
    /\ out = [p \in Procs |-> <<>>]
    /\ exitCode = [p \in Procs |-> 0]
    /\ saves = [p \in Procs |-> 0]
    /\ started = 0
    /\ expect = [k \in Keys |-> None]
    /\ snapshot = [p \in Procs |-> DefaultStore]
    /\ raced = [p \in Procs |-> FALSE]
    /\ gone = [k \in Keys |-> FALSE]
    /\ loads = [p \in Procs |-> 0]

-----------------------------------------------------------------------------
(* Steps of one invocation.  A step is one access to the backing file
   together with the statements of the process that follow it up to its next
   access to the file; the process's memory is gone once it has exited, its
   output and its exit status stay. *)

\* exit that always reports success
exit_zero(p, code) ==
    /\ pc' = [pc EXCEPT ![p] = "done"]
    /\ exitCode' = [exitCode EXCEPT ![p] = 0]
    /\ op' = [op EXCEPT ![p] = NoRequest]
    /\ kvstore' = [kvstore EXCEPT ![p] = DefaultStore]
    /\ value' = [value EXCEPT ![p] = None]
    /\ snapshot' = [snapshot EXCEPT ![p] = DefaultStore]

\* fn print_err, lines 208-211 (after its println): std::process::exit(code);
\* also the return from main, with code 0
exit(p, code) ==
    /\ pc' = [pc EXCEPT ![p] = "done"]
    /\ exitCode' = [exitCode EXCEPT ![p] = code]
    /\ op' = [op EXCEPT ![p] = NoRequest]
    /\ kvstore' = [kvstore EXCEPT ![p] = DefaultStore]
    /\ value' = [value EXCEPT ![p] = None]
    /\ snapshot' = [snapshot EXCEPT ![p] = DefaultStore]

\* println! and spawn: the records are added to what p has put out so far
println(p, recs) == out' = [out EXCEPT ![p] = @ \o recs]

\* App::get_matches (main.rs:337-449): clap has parsed one of the command
\* lines `requests`, and the locals of the new process are fresh.  The second
\* shell is used only while the first is busy.
get_matches(p, requests) ==
    /\ pc[p] \in {"idle", "done"}
    /\ p # Main => pc[Main] \notin {"idle", "done"}
    /\ started' = started + 1
    /\ \E r \in requests :
         /\ op' = [op EXCEPT ![p] = r]
         /\ expect' = IF r.kind \in {"set", "del"}
                      THEN [expect EXCEPT ![r.key] = None]
                      ELSE expect
         /\ gone' = IF r.kind = "set" THEN [gone EXCEPT ![r.key] = FALSE] ELSE gone
    /\ pc' = [pc EXCEPT ![p] = "run"]
    /\ kvstore' = [kvstore EXCEPT ![p] = DefaultStore]
    /\ value' = [value EXCEPT ![p] = None]
    /\ out' = [out EXCEPT ![p] = <<>>]
    /\ exitCode' = [exitCode EXCEPT ![p] = 0]
    /\ saves' = [saves EXCEPT ![p] = 0]
    /\ snapshot' = [snapshot EXCEPT ![p] = DefaultStore]
    /\ raced' = [raced EXCEPT ![p] = FALSE]
    /\ loads' = [loads EXCEPT ![p] = 0]
    /\ UNCHANGED file

\* The shell starts the binary with any command line
main(p) == started < MaxInvocations /\ get_matches(p, Requests)

\* the get branch, going on to write_file after print_res
run_get_saving(p) ==
    /\ pc[p] = "run" /\ op[p].kind = "get"
    /\ LET store == get_store(file)
       IN /\ kvstore' = [kvstore EXCEPT ![p] = store]
          /\ println(p, <<print_res(get_key(op[p].key, store.kvs))>>)
    /\ pc' = [pc EXCEPT ![p] = "set_len"]
    /\ loads' = [loads EXCEPT ![p] = @ + 1]
    /\ UNCHANGED <<file, op, value, exitCode, saves, started, expect, snapshot, raced, gone>>

\* run, lines 214-219: let mut kvstore = get_store(); and the get branch up
\* to the call of run_hooks
run_get(p) ==
    /\ pc[p] = "run" /\ op[p].kind = "get"
    /\ LET store == get_store(file)
       IN /\ kvstore' = [kvstore EXCEPT ![p] = store]
          /\ println(p, <<print_res(get_key(op[p].key, store.kvs))>>)
    /\ pc' = [pc EXCEPT ![p] = "run_hooks"]
    /\ loads' = [loads EXCEPT ![p] = @ + 1]
    /\ UNCHANGED <<file, op, value, exitCode, saves, started, expect, snapshot, raced, gone>>

\* the set branch, calling run_hooks without write_file
run_set_hooks_first(p) ==
    /\ pc[p] = "run" /\ op[p].kind = "set"
    /\ LET store == get_store(file)
       IN /\ snapshot' = [snapshot EXCEPT ![p] = store]
          /\ kvstore' = [kvstore EXCEPT
                           ![p] = [store EXCEPT !.kvs = set_key(op[p].key, op[p].val, @)]]
    /\ pc' = [pc EXCEPT ![p] = "run_hooks"]
    /\ loads' = [loads EXCEPT ![p] = @ + 1]
    /\ UNCHANGED <<file, op, value, out, exitCode, saves, started, expect, raced, gone>>

\* run, lines 214 and 221-225: the load and the set branch up to the call of
\* write_file
run_set(p) ==
    /\ pc[p] = "run" /\ op[p].kind = "set"
    /\ LET store == get_store(file)
       IN /\ snapshot' = [snapshot EXCEPT ![p] = store]
          /\ kvstore' = [kvstore EXCEPT
                           ![p] = [store EXCEPT !.kvs = set_key(op[p].key, op[p].val, @)]]
    /\ pc' = [pc EXCEPT ![p] = "set_len"]
    /\ loads' = [loads EXCEPT ![p] = @ + 1]
    /\ UNCHANGED <<file, op, value, out, exitCode, saves, started, expect, raced, gone>>

\* the del branch, treating a key that is not in the map as an error
run_del_strict(p) ==
    /\ pc[p] = "run" /\ op[p].kind = "del"
    /\ LET store == get_store(file)
       IN IF get_key(op[p].key, store.kvs) = None
          THEN /\ println(p, <<error_msg("no_key", op[p].key)>>)
               /\ exit(p, 1)
          ELSE /\ snapshot' = [snapshot EXCEPT ![p] = store]
               /\ value' = [value EXCEPT ![p] = get_key(op[p].key, store.kvs)]
               /\ kvstore' = [kvstore EXCEPT
                                ![p] = [store EXCEPT !.kvs = del_key(op[p].key, @)]]
               /\ pc' = [pc EXCEPT ![p] = "set_len"]
               /\ UNCHANGED <<op, out, exitCode>>
    /\ loads' = [loads EXCEPT ![p] = @ + 1]
    /\ UNCHANGED <<file, saves, started, expect, raced, gone>>

\* run, lines 214 and 228-231: the load and the del branch up to the call of
\* write_file
run_del(p) ==
    /\ pc[p] = "run" /\ op[p].kind = "del"
    /\ LET store == get_store(file)
       IN /\ snapshot' = [snapshot EXCEPT ![p] = store]
          /\ value' = [value EXCEPT ![p] = get_key(op[p].key, store.kvs)]
          /\ kvstore' = [kvstore EXCEPT
                           ![p] = [store EXCEPT !.kvs = del_key(op[p].key, @)]]
    /\ pc' = [pc EXCEPT ![p] = "set_len"]
    /\ loads' = [loads EXCEPT ![p] = @ + 1]
    /\ UNCHANGED <<file, op, out, exitCode, saves, started, expect, raced, gone>>

\* run, lines 214 and 298-305: the load and cmd run
run_cmd_run(p) ==
    /\ pc[p] = "run" /\ op[p].kind = "cmd_run"
    /\ LET cmd_value == get_key(op[p].cmd, get_store(file).cmds)
       IN IF cmd_value # None
          THEN println(p, <<run_command(op[p].cmd, cmd_value)>>)
          ELSE println(p, <<error_msg("no_command", op[p].cmd)>>)
    /\ exit(p, 0)
    /\ loads' = [loads EXCEPT ![p] = @ + 1]
    /\ UNCHANGED <<file, saves, started, expect, raced, gone>>

\* run, lines 214 and 307-311: the load and cmd add up to the call of write_file
run_cmd_add(p) ==
    /\ pc[p] = "run" /\ op[p].kind = "cmd_add"
    /\ LET store == get_store(file)
       IN /\ snapshot' = [snapshot EXCEPT ![p] = store]
          /\ kvstore' = [kvstore EXCEPT
                           ![p] = [store EXCEPT !.cmds = set_key(op[p].cmd, op[p].cval, @)]]
    /\ pc' = [pc EXCEPT ![p] = "set_len"]
    /\ loads' = [loads EXCEPT ![p] = @ + 1]
    /\ UNCHANGED <<file, op, value, out, exitCode, saves, started, expect, raced, gone>>

\* run, line 214, of the invocations that load the store again before they
\* use it: list (line 237), cmd del-hook (line 168) and cmd add-hook (line 147)
run_load(p) ==
    /\ pc[p] = "run" /\ op[p].kind \in {"list", "del_hook", "add_hook"}
    /\ kvstore' = [kvstore EXCEPT ![p] = get_store(file)]
    /\ pc' = [pc EXCEPT ![p] = "branch"]
    /\ loads' = [loads EXCEPT ![p] = @ + 1]
    /\ UNCHANGED <<file, op, value, out, exitCode, saves, started, expect, snapshot, raced, gone>>

\* The tables `list` prints for a subject (lines 276-294)
tables(subject) ==
    CASE subject = "cmds" -> <<table("cmds")>>
      [] subject = "keys" -> <<table("keys")>>
      [] subject = "hooks" -> <<table("hooks")>>
      [] subject = None -> <<table("keys"), table("cmds"), table("hooks")>>

\* the list branch printing from the store run loaded, without line 237
run_list_no_load(p) ==
    /\ pc[p] = "branch" /\ op[p].kind = "list"
    /\ println(p, tables(op[p].subj))
    /\ exit(p, 0)
    /\ UNCHANGED <<file, saves, started, expect, raced, gone, loads>>

\* run, lines 235-295: the list branch, with its own get_store (line 237)
run_list(p) ==
    /\ pc[p] = "branch" /\ op[p].kind = "list"
    /\ println(p, tables(op[p].subj))
    /\ exit(p, 0)
    /\ loads' = [loads EXCEPT ![p] = @ + 1]
    /\ UNCHANGED <<file, saves, started, expect, raced, gone>>

\* rm_hook that prints the message and goes on to write_file
rm_hook_no_exit(p) ==
    /\ pc[p] = "branch" /\ op[p].kind = "del_hook"
    /\ LET store == get_store(file)
           pos == position(store.hooks, op[p].hook)
       IN /\ snapshot' = [snapshot EXCEPT ![p] = store]
          /\ IF pos # 0
             THEN /\ kvstore' = [kvstore EXCEPT
                                   ![p] = [store EXCEPT !.hooks = remove(@, pos)]]
                  /\ UNCHANGED out
             ELSE /\ kvstore' = [kvstore EXCEPT ![p] = store]
                  /\ println(p, <<error_msg("no_hook", op[p].hook)>>)
    /\ pc' = [pc EXCEPT ![p] = "set_len"]
    /\ loads' = [loads EXCEPT ![p] = @ + 1]
    /\ UNCHANGED <<file, op, value, exitCode, saves, started, expect, raced, gone>>

\* fn rm_hook, lines 167-177 (called at line 316), up to the call of write_file
rm_hook(p) ==
    /\ pc[p] = "branch" /\ op[p].kind = "del_hook"
    /\ LET store == get_store(file)
           pos == position(store.hooks, op[p].hook)
       IN IF pos # 0
          THEN /\ snapshot' = [snapshot EXCEPT ![p] = store]
               /\ kvstore' = [kvstore EXCEPT ![p] = [store EXCEPT !.hooks = remove(@, pos)]]
               /\ pc' = [pc EXCEPT ![p] = "set_len"]
               /\ UNCHANGED <<op, value, out, exitCode>>
          ELSE /\ println(p, <<error_msg("no_hook", op[p].hook)>>)
               /\ exit(p, 1)
    /\ loads' = [loads EXCEPT ![p] = @ + 1]
    /\ UNCHANGED <<file, saves, started, expect, raced, gone>>

\* add_hook that prints the message and goes on to push and write_file
add_hook_no_exit(p) ==
    /\ pc[p] = "branch" /\ op[p].kind = "add_hook"
    /\ LET store == get_store(file)
           new_hook == [name |-> op[p].hook, cmd_name |-> op[p].cmd,
                        run_on |-> from_str(op[p].trig), key |-> op[p].key]
       IN /\ IF name_taken(store.hooks, op[p].hook)
             THEN println(p, <<error_msg("hook_exists", op[p].hook)>>)
             ELSE UNCHANGED out
          /\ Len(store.hooks) < MaxHooks
          /\ snapshot' = [snapshot EXCEPT ![p] = store]
          /\ kvstore' = [kvstore EXCEPT ![p] = [store EXCEPT !.hooks = push(@, new_hook)]]
    /\ pc' = [pc EXCEPT ![p] = "set_len"]
    /\ loads' = [loads EXCEPT ![p] = @ + 1]
    /\ UNCHANGED <<file, op, value, exitCode, saves, started, expect, raced, gone>>

\* fn add_hook, lines 146-162 (called at lines 320-329), up to the call of write_file
add_hook(p) ==
    /\ pc[p] = "branch" /\ op[p].kind = "add_hook"
    /\ LET store == get_store(file)
           new_hook == [name |-> op[p].hook, cmd_name |-> op[p].cmd,
                        run_on |-> from_str(op[p].trig), key |-> op[p].key]
       IN IF name_taken(store.hooks, op[p].hook)
          THEN /\ println(p, <<error_msg("hook_exists", op[p].hook)>>)
               /\ exit(p, 1)
          ELSE /\ Len(store.hooks) < MaxHooks
               /\ snapshot' = [snapshot EXCEPT ![p] = store]
               /\ kvstore' = [kvstore EXCEPT ![p] = [store EXCEPT !.hooks = push(@, new_hook)]]
               /\ pc' = [pc EXCEPT ![p] = "set_len"]
               /\ UNCHANGED <<op, value, out, exitCode>>
    /\ loads' = [loads EXCEPT ![p] = @ + 1]
    /\ UNCHANGED <<file, saves, started, expect, raced, gone>>

\* fn write_file, lines 101-102: file.set_len(0)
set_len(p) ==
    /\ pc[p] = "set_len"
    /\ file' = ZeroFile
    /\ pc' = [pc EXCEPT ![p] = "write_all"]
    /\ UNCHANGED <<op, kvstore, value, out, exitCode, saves, started, expect, snapshot, raced, gone, loads>>

\* write_file handed the store as it was loaded, without the mutation
write_file_unmutated(p) ==
    /\ pc[p] = "write_all"
    /\ file' \in write_all(file, snapshot[p])
    /\ saves' = [saves EXCEPT ![p] = @ + 1]
    /\ raced' = [q \in Procs |-> IF q = p THEN FALSE
                                 ELSE raced[q] \/ pc[q] \in {"set_len", "write_all"}]
    /\ CASE op[p].kind = "set" ->
              /\ pc' = [pc EXCEPT ![p] = "run_hooks"]
              /\ UNCHANGED <<op, kvstore, value, out, exitCode, snapshot>>
         [] op[p].kind = "del" ->
              /\ println(p, <<print_res(value[p])>>)
              /\ pc' = [pc EXCEPT ![p] = "run_hooks"]
              /\ UNCHANGED <<op, kvstore, value, exitCode, snapshot>>
         [] OTHER ->
              /\ exit(p, 0)
              /\ UNCHANGED out
    /\ UNCHANGED <<started, expect, gone, loads>>

\* fn write_file, lines 103-104: file.write_all(to_string_pretty(m)), and
\* what the caller does next: set goes on to run_hooks (line 226), del prints
\* the removed value and goes on to run_hooks (lines 232-233), cmd add,
\* add_hook and rm_hook return
write_file(p) ==
    /\ pc[p] = "write_all"
    /\ file' \in write_all(file, kvstore[p])
    /\ saves' = [saves EXCEPT ![p] = @ + 1]
    /\ raced' = [q \in Procs |-> IF q = p THEN FALSE
                                 ELSE raced[q] \/ pc[q] \in {"set_len", "write_all"}]
    /\ CASE op[p].kind = "set" ->
              /\ pc' = [pc EXCEPT ![p] = "run_hooks"]
              /\ UNCHANGED <<op, kvstore, value, out, exitCode, snapshot>>
         [] op[p].kind = "del" ->
              /\ println(p, <<print_res(value[p])>>)
              /\ pc' = [pc EXCEPT ![p] = "run_hooks"]
              /\ UNCHANGED <<op, kvstore, value, exitCode, snapshot>>
         [] OTHER ->
              /\ exit(p, 0)
              /\ UNCHANGED out
    /\ UNCHANGED <<started, expect, gone, loads>>

\* The hook trigger of each branch of run (lines 219, 226, 233)
current_op(kind) == CASE kind = "get" -> Get [] kind = "set" -> Set [] kind = "del" -> Del

RECURSIVE for_hooks_abort(_, _)
\* the loop of run_hooks, leaving at the first hook without a command
for_hooks_abort(hooks_to_run, cmds) ==
    IF hooks_to_run = <<>> THEN <<>>
    ELSE LET hook == Head(hooks_to_run)
             cmd == get_key(hook.cmd_name, cmds)
         IN IF cmd # None
            THEN <<run_command(hook.cmd_name, cmd)>> \o for_hooks_abort(Tail(hooks_to_run), cmds)
            ELSE <<bad_hook(hook.name)>>

RECURSIVE for_hooks(_, _)
\* fn run_hooks, lines 130-135: the loop over hooks_to_run
for_hooks(hooks_to_run, cmds) ==
    IF hooks_to_run = <<>> THEN <<>>
    ELSE LET hook == Head(hooks_to_run)
             cmd == get_key(hook.cmd_name, cmds)
         IN <<IF cmd # None THEN run_command(hook.cmd_name, cmd) ELSE bad_hook(hook.name)>>
            \o for_hooks(Tail(hooks_to_run), cmds)

\* run_hooks handed the store that run has in memory
run_hooks_stale(p) ==
    /\ pc[p] = "run_hooks"
    /\ LET store == kvstore[p]
           hooks_to_run == filter_hooks(store.hooks, op[p].key, current_op(op[p].kind))
       IN println(p, for_hooks(hooks_to_run, store.cmds))
    /\ exit(p, 0)
    /\ expect' = IF op[p].kind = "set"
                 THEN [expect EXCEPT ![op[p].key] = op[p].val]
                 ELSE expect
    /\ gone' = IF op[p].kind = "del" /\ value[p] # None
             THEN [gone EXCEPT ![op[p].key] = TRUE]
             ELSE gone
    /\ loads' = [loads EXCEPT ![p] = @ + 1]
    /\ UNCHANGED <<file, saves, started, raced>>

\* run_hooks called ahead of print_res: the hooks come before the result
run_hooks_first(p) ==
    /\ pc[p] = "run_hooks"
    /\ LET store == get_store(file)
           hooks_to_run == filter_hooks(store.hooks, op[p].key, current_op(op[p].kind))
       IN out' = [out EXCEPT ![p] = for_hooks(hooks_to_run, store.cmds) \o @]
    /\ exit(p, 0)
    /\ expect' = IF op[p].kind = "set"
                 THEN [expect EXCEPT ![op[p].key] = op[p].val]
                 ELSE expect
    /\ gone' = IF op[p].kind = "del" /\ value[p] # None
             THEN [gone EXCEPT ![op[p].key] = TRUE]
             ELSE gone
    /\ loads' = [loads EXCEPT ![p] = @ + 1]
    /\ UNCHANGED <<file, saves, started, raced>>

\* fn run_hooks, lines 123-136: its own get_store, the filter and the loop;
\* then run and main return
run_hooks(p) ==
    /\ pc[p] = "run_hooks"
    /\ LET store == get_store(file)
           hooks_to_run == filter_hooks(store.hooks, op[p].key, current_op(op[p].kind))
       IN println(p, for_hooks(hooks_to_run, store.cmds))
    /\ exit(p, 0)
    /\ expect' = IF op[p].kind = "set"
                 THEN [expect EXCEPT ![op[p].key] = op[p].val]
                 ELSE expect
    /\ gone' = IF op[p].kind = "del" /\ value[p] # None
             THEN [gone EXCEPT ![op[p].key] = TRUE]
             ELSE gone
    /\ loads' = [loads EXCEPT ![p] = @ + 1]
    /\ UNCHANGED <<file, saves, started, raced>>

\* One shell: an invocation starts when the one before it has exited
NextSeq ==
    \/ main(Main)
    \/ run_get(Main)
    \/ run_set(Main)
    \/ run_del(Main)
    \/ run_cmd_run(Main)
    \/ run_cmd_add(Main)
    \/ run_load(Main)
    \/ run_list(Main)
    \/ rm_hook(Main)
    \/ add_hook(Main)
    \/ set_len(Main)
    \/ write_file(Main)
    \/ run_hooks(Main)

SpecSeq == Init /\ [][NextSeq]_vars

\* A store with an entry in each map and one hook
FoundStore ==
    [kvs |-> [DefaultStore.kvs EXCEPT !["k1"] = "v1"],
     cmds |-> [DefaultStore.cmds EXCEPT !["c1"] = "sh"],
     hooks |-> <<[name |-> "h1", cmd_name |-> "c1", run_on |-> Get, key |-> "k1"]>>]

\* Files the binary may find: none (get_file creates it, zero-length); the
\* leftover of overlapping saves; a document cut short ("truncated": json is
\* the document the bytes are the head of); a document whose run_on is the
\* Display token, not the variant name; and a document write_file wrote
FoundFiles ==
    {ZeroFile, GarbledFile,
     [kind |-> "truncated", json |-> to_string_pretty(FoundStore)],
     [kind |-> "doc",
      json |-> [to_string_pretty(FoundStore) EXCEPT !.hooks[1].run_on = fmt(Get)]],
     DocFile(FoundStore)}

\* No invocation has run yet and the file is one of FoundFiles
InitFound ==
    /\ file \in FoundFiles
    /\ pc = [p \in Procs |-> "idle"]
    /\ op = [p \in Procs |-> NoRequest]
    /\ kvstore = [p \in Procs |-> DefaultStore]
    /\ value = [p \in Procs |-> None]
    /\ out = [p \in Procs |-> <<>>]
    /\ exitCode = [p \in Procs |-> 0]
    /\ saves = [p \in Procs |-> 0]
    /\ started = 0
    /\ expect = [k \in Keys |-> None]
    /\ snapshot = [p \in Procs |-> DefaultStore]
    /\ raced = [p \in Procs |-> FALSE]
    /\ gone = [k \in Keys |-> FALSE]
    /\ loads = [p \in Procs |-> 0]

\* The shell starts the binary, with any command line, on the file found
found(p) == started < MaxFound /\ get_matches(p, Requests)

\* One shell, starting on any of FoundFiles
NextFound ==
    \/ found(Main)
    \/ run_get(Main)
    \/ run_set(Main)
    \/ run_del(Main)
    \/ run_cmd_run(Main)
    \/ run_cmd_add(Main)
    \/ run_load(Main)
    \/ run_list(Main)
    \/ rm_hook(Main)
    \/ add_hook(Main)
    \/ set_len(Main)
    \/ write_file(Main)
    \/ run_hooks(Main)

SpecFound == InitFound /\ [][NextFound]_vars

\* The shell starts the binary with a command line that edits the store
edit(p) == started < MaxEdits /\ get_matches(p, EditRequests)

\* One shell that only edits the store
NextEdit ==
    \/ edit(Main)
    \/ run_set(Main)
    \/ run_del(Main)
    \/ run_cmd_add(Main)
    \/ run_load(Main)
    \/ rm_hook(Main)
    \/ add_hook(Main)
    \/ set_len(Main)
    \/ write_file(Main)
    \/ run_hooks(Main)

SpecEdit == Init /\ [][NextEdit]_vars

\* A shell starts one of the invocations that race
race(p) == started < MaxRacing /\ main(p)

\* Two shells: the steps of their invocations interleave
Next ==
    \E p \in Procs :
        \/ race(p)
        \/ run_get(p)
        \/ run_set(p)
        \/ run_del(p)
        \/ run_cmd_run(p)
        \/ run_cmd_add(p)
        \/ run_load(p)
        \/ run_list(p)
        \/ rm_hook(p)
        \/ add_hook(p)
        \/ set_len(p)
        \/ write_file(p)
        \/ run_hooks(p)

Spec == Init /\ [][Next]_vars

-----------------------------------------------------------------------------
(* Properties *)

\* The key/value map of the store a load of the file returns now
persisted_kvs == get_store(file).kvs
persisted_cmds == get_store(file).cmds
persisted_hooks == get_store(file).hooks

\* C1 (read-your-writes, one shell): once `set k v` has completed and no later
\* invocation has set or deleted k, the file holds k -> v between invocations,
\* and a `get k` prints exactly v while the file still holds k -> v.
C1_ReadYourWrites ==
    \A k \in Keys :
        expect[k] # None =>
            /\ pc[Main] \in {"idle", "done"} => get_key(k, persisted_kvs) = expect[k]
            /\ (pc[Main] = "run_hooks" /\ op[Main].kind = "get" /\ op[Main].key = k) =>
                    /\ out[Main] = <<print_res(expect[k])>>
                    /\ get_key(k, persisted_kvs) = expect[k]

\* `set k1 v2`, then `set k2 v1`, then `get k1` has printed v2
C1_Witness ==
    /\ started = 3
    /\ pc[Main] = "run_hooks" /\ op[Main].kind = "get" /\ op[Main].key = "k1"
    /\ expect["k1"] = "v2"
    /\ get_key("k2", persisted_kvs) = "v1"
    /\ out[Main] = <<print_res("v2")>>

\* C2 (two shells, starting from no file): in every reachable state the hooks
\* of the persisted store, and of the document in the file, have pairwise
\* different names.
C2_UniqueHookNames ==
    /\ \A i, j \in 1..Len(persisted_hooks) :
            i # j => persisted_hooks[i].name # persisted_hooks[j].name
    /\ \A i, j \in 1..Len(file.json.hooks) :
            i # j => file.json.hooks[i].name # file.json.hooks[j].name

\* Two add-hook invocations of the same name raced: both found the name free;
\* the second shell has saved its hook and the first is about to write its own.
C2_Witness ==
    /\ pc[1] = "write_all" /\ op[1].kind = "add_hook"
    /\ pc[2] = "done" /\ saves[2] = 1
    /\ Len(persisted_hooks) = 1 /\ Len(kvstore[1].hooks) = 1
    /\ persisted_hooks[1].name = kvstore[1].hooks[1].name
    /\ persisted_hooks[1].cmd_name # kvstore[1].hooks[1].cmd_name

\* Invocation p takes a step
steps(p) == pc'[p] # pc[p]

\* p has put out the message of a rejected operation
reported(p, what) == \E i \in 1..Len(out[p]) : out[p][i].ev = "error" /\ out[p][i].a = what

\* C3: an add-hook invocation that finds its hook name in the store it loads
\* (line 147) exits with status 1 in that step, having printed the message:
\* it pushes nothing, has saved nothing and leaves the file as it is; its
\* earlier step, the load of line 214, leaves the file as it is too.
C3_DuplicateAddRejected ==
    [][\A p \in Procs :
        /\ (steps(p) /\ pc[p] = "branch" /\ op[p].kind = "add_hook"
                /\ \E i \in 1..Len(persisted_hooks) : persisted_hooks[i].name = op[p].hook) =>
              /\ pc'[p] = "done" /\ exitCode'[p] # 0
              /\ out'[p] = <<error_msg("hook_exists", op[p].hook)>>
              /\ saves'[p] = 0
              /\ file' = file
        /\ (steps(p) /\ pc[p] = "run" /\ op[p].kind = "add_hook") => file' = file
      ]_vars

\* An add-hook of the name h1 was rejected; the store still has its one hook h1
C3_Witness ==
    /\ pc[Main] = "done" /\ exitCode[Main] = 1 /\ saves[Main] = 0
    /\ out[Main] = <<error_msg("hook_exists", "h1")>>
    /\ Len(persisted_hooks) = 1 /\ persisted_hooks[1].name = "h1"

\* C4: a del-hook invocation that finds no hook of its name in the store it
\* loads (line 168) prints the error and ends in that step: it has saved
\* nothing and leaves the file as it is; its earlier step, the load of line
\* 214, leaves the file as it is too.
C4_MissingDelRejected ==
    [][\A p \in Procs :
        /\ (steps(p) /\ pc[p] = "branch" /\ op[p].kind = "del_hook"
                /\ \A i \in 1..Len(persisted_hooks) : persisted_hooks[i].name # op[p].hook) =>
              /\ pc'[p] = "done"
              /\ out'[p] = <<error_msg("no_hook", op[p].hook)>>
              /\ saves'[p] = 0
              /\ file' = file
        /\ (steps(p) /\ pc[p] = "run" /\ op[p].kind = "del_hook") => file' = file
      ]_vars

\* A del-hook of h2 was rejected on a store whose only hook is h1
C4_Witness ==
    /\ pc[Main] = "done" /\ saves[Main] = 0
    /\ out[Main] = <<error_msg("no_hook", "h2")>>
    /\ Len(persisted_hooks) = 1 /\ persisted_hooks[1].name = "h1"

\* C5 as the specification states it: a duplicate add-hook ends with a
\* non-zero status, a del-hook of a missing name and a cmd run of a missing
\* command end with status 0.
C5_ExitStatusAsStated ==
    \A p \in Procs :
        pc[p] = "done" =>
            /\ reported(p, "hook_exists") => exitCode[p] # 0
            /\ reported(p, "no_hook") => exitCode[p] = 0
            /\ reported(p, "no_command") => exitCode[p] = 0

\* C5, amended: a duplicate add-hook and a del-hook of a missing name both end
\* with status 1 (print_err); a cmd run of a missing command prints its
\* message and ends with status 0.
C5_ExitStatus ==
    \A p \in Procs :
        pc[p] = "done" =>
            /\ reported(p, "hook_exists") => exitCode[p] = 1
            /\ reported(p, "no_hook") => exitCode[p] = 1
            /\ reported(p, "no_command") => exitCode[p] = 0

\* One shell ended a del-hook of a missing name with status 1, the other a
\* cmd run of a missing command with status 0
C5_Witness ==
    /\ pc[1] = "done" /\ reported(1, "no_hook") /\ exitCode[1] = 1
    /\ pc[2] = "done" /\ reported(2, "no_command") /\ exitCode[2] = 0

\* The operation kind of a get, set or del invocation: the variant whose
\* Display token is the subcommand's name
kind_of(request) == CHOOSE o \in OpType : fmt(o) = request.kind

\* The positions of the hooks of `store` registered for operation o on key k
matching(store, k, o) ==
    {i \in 1..Len(store.hooks) : store.hooks[i].run_on = o /\ store.hooks[i].key = k}

\* Those among them whose cmd_name is a key of the CommandMap
resolving(store, k, o) ==
    {i \in matching(store, k, o) : store.cmds[store.hooks[i].cmd_name] # None}

\* The j-th smallest member of a set of positions
nth(S, j) == CHOOSE i \in S : Cardinality({m \in S : m < i}) = j - 1

is_spawn(e) == e.ev = "spawn"
is_hook_event(e) == e.ev \in {"spawn", "badhook"}
spawned(o) == SelectSeq(o, is_spawn)
hook_events(o) == SelectSeq(o, is_hook_event)

\* C6 (one shell): a get, set or del invocation on key k spawns nothing before
\* its run_hooks step, and in that step spawns exactly the commands of the
\* hooks of the persisted store with run_on = its operation and key = k whose
\* cmd_name resolves: one spawn per such hook, in the order of the hook
\* sequence.
C6_HookDispatch ==
    [][\A p \in Procs :
        /\ op[p].kind \in {"get", "set", "del"} => spawned(out[p]) = <<>>
        /\ (steps(p) /\ pc[p] = "run_hooks") =>
              LET store == get_store(file)
                  S == resolving(store, op[p].key, kind_of(op[p]))
                  D == spawned(out'[p])
              IN /\ Len(D) = Cardinality(S)
                 /\ \A j \in 1..Len(D) :
                        LET h == store.hooks[nth(S, j)]
                        IN D[j] = run_command(h.cmd_name, store.cmds[h.cmd_name])
      ]_vars

\* `set k1` has spawned the command of h1 (c2), then that of h2 (c1): both
\* hooks are registered for set on k1
C6_Witness ==
    /\ pc[Main] = "done"
    /\ out[Main] = <<run_command("c2", "sh"), run_command("c1", "sh")>>
    /\ Len(persisted_hooks) = 2
    /\ persisted_hooks[1].cmd_name = "c2" /\ persisted_hooks[1].run_on = Set
    /\ persisted_hooks[1].key = "k1"

\* `set k1` has spawned one command although the store has two hooks and two
\* commands: the other hook is registered for another key or operation
C6_WitnessOther ==
    /\ pc[Main] = "done"
    /\ Len(out[Main]) = 1 /\ out[Main][1].ev = "spawn"
    /\ Len(persisted_hooks) = 2
    /\ \A c \in CmdNames : persisted_cmds[c] # None

\* C7 (one shell): add-hook does not look at the CommandMap: with a free name
\* it goes on to save the store with the hook appended, and the save ends
\* with status 0, also when cmd_name is no key of cmds.  In run_hooks every
\* matching hook gets its turn, in order: a hook whose command is missing
\* puts out the bad-hook message with the hook's name, one whose command is
\* there is spawned, and the invocation ends with status 0.
C7_SoftReference ==
    [][\A p \in Procs :
        /\ (steps(p) /\ pc[p] = "branch" /\ op[p].kind = "add_hook"
                /\ \A i \in 1..Len(persisted_hooks) : persisted_hooks[i].name # op[p].hook) =>
              /\ pc'[p] = "set_len"
              /\ Len(kvstore'[p].hooks) = Len(persisted_hooks) + 1
              /\ kvstore'[p].hooks[Len(kvstore'[p].hooks)].cmd_name = op[p].cmd
        /\ (steps(p) /\ pc[p] = "write_all" /\ op[p].kind = "add_hook") =>
              /\ file' = DocFile(kvstore[p])
              /\ pc'[p] = "done" /\ exitCode'[p] = 0
        /\ (steps(p) /\ pc[p] = "run_hooks") =>
              LET store == get_store(file)
                  M == matching(store, op[p].key, kind_of(op[p]))
                  E == hook_events(out'[p])
              IN /\ pc'[p] = "done" /\ exitCode'[p] = 0
                 /\ Len(E) = Cardinality(M)
                 /\ \A j \in 1..Len(E) :
                        LET h == store.hooks[nth(M, j)]
                        IN IF store.cmds[h.cmd_name] = None
                           THEN E[j] = bad_hook(h.name)
                           ELSE E[j] = run_command(h.cmd_name, store.cmds[h.cmd_name])
      ]_vars

\* `get k1` on a store without k1 has printed the empty line, then the
\* bad-hook message of h1 (its command c2 is missing), then has spawned the
\* command of h2, and has ended with status 0
C7_Witness ==
    /\ pc[Main] = "done" /\ exitCode[Main] = 0
    /\ out[Main] = <<print_res(None), bad_hook("h1"), run_command("c1", "sh")>>
    /\ persisted_cmds["c2"] = None

\* C8 (one shell): when a set or del invocation is about to run its hooks it
\* has completed its one save and has spawned nothing yet, and the persisted
\* store reflects the mutation: the new value for set, no value for del.
C8_PersistPrecedesTrigger ==
    \A p \in Procs :
        /\ (pc[p] = "run_hooks" /\ op[p].kind = "set") =>
                /\ saves[p] = 1 /\ hook_events(out[p]) = <<>>
                /\ get_key(op[p].key, persisted_kvs) = op[p].val
        /\ (pc[p] = "run_hooks" /\ op[p].kind = "del") =>
                /\ saves[p] = 1 /\ hook_events(out[p]) = <<>>
                /\ get_key(op[p].key, persisted_kvs) = None

\* `del k1` has saved and is about to run the hook registered for del on k1,
\* whose command is in the store; k1 had a value
C8_Witness ==
    /\ pc[Main] = "run_hooks" /\ op[Main].kind = "del" /\ op[Main].key = "k1"
    /\ saves[Main] = 1 /\ value[Main] # None
    /\ resolving(get_store(file), "k1", Del) # {}

Saving == {"set", "del", "cmd_add", "add_hook", "del_hook"}
ReadOnly == {"get", "list", "cmd_run"}

\* C9 (two shells): an invocation completes a save only if it is a set, del,
\* cmd add, add-hook or del-hook and has not saved before; no step of a get,
\* list or cmd run invocation changes the file; a list invocation puts out
\* no spawn and no bad-hook message.
C9_SavesAndReads ==
    [][\A p \in Procs :
        steps(p) =>
            /\ saves'[p] > saves[p] => (op[p].kind \in Saving /\ saves[p] = 0)
            /\ saves'[p] <= 1
            /\ op[p].kind \in ReadOnly => file' = file
            /\ op[p].kind \notin Saving => file' = file
            /\ op[p].kind = "list" => hook_events(out'[p]) = <<>>
      ]_vars

\* A get has ended without a save, having printed the value v2 that the file
\* still holds for k2
C9_Witness ==
    /\ pc[Main] = "done" /\ saves[Main] = 0
    /\ out[Main] = <<print_res("v2")>>
    /\ file.kind = "doc" /\ get_key("k2", persisted_kvs) = "v2"

\* What a saving request asks for, applied to a store
effect(store, r) ==
    CASE r.kind = "set" -> [store EXCEPT !.kvs[r.key] = r.val]
      [] r.kind = "del" -> [store EXCEPT !.kvs[r.key] = None]
      [] r.kind = "cmd_add" -> [store EXCEPT !.cmds[r.cmd] = r.cval]
      [] r.kind = "add_hook" ->
            [store EXCEPT !.hooks = Append(@,
                [name |-> r.hook, cmd_name |-> r.cmd,
                 run_on |-> CHOOSE o \in OpType : fmt(o) = r.trig, key |-> r.key])]
      [] r.kind = "del_hook" ->
            [store EXCEPT !.hooks =
                LET i == CHOOSE i \in 1..Len(@) : @[i].name = r.hook
                IN [j \in 1..(Len(@) - 1) |-> IF j < i THEN @[j] ELSE @[j + 1]]]

\* An invocation that has saved and ended reported no error
saved_without_error ==
    \A p \in Procs :
        (pc[p] = "done" /\ saves[p] > 0) =>
            /\ exitCode[p] = 0
            /\ \A i \in 1..Len(out[p]) : out[p][i].ev # "error"

\* C10 as the specification states it: when an invocation completes its save
\* after another invocation has completed one since its load, the file holds
\* exactly its snapshot with its own mutation, and no invocation that saved
\* reports an error.
C10_LastSaveWinsAsStated ==
    [][\A q \in Procs :
        /\ (steps(q) /\ pc[q] = "write_all" /\ raced[q]) =>
              file' = DocFile(effect(snapshot[q], op[q]))
        /\ saved_without_error
      ]_vars

\* C10, amended: that holds when the later save's write finds the file as its
\* own set_len(0) left it; when the other save's write landed between the
\* set_len(0) and the write, the file holds that document or bytes that are
\* no document and load as the empty store.  No invocation that saved
\* reports an error.
C10_LastSaveWins ==
    [][\A q \in Procs :
        /\ (steps(q) /\ pc[q] = "write_all" /\ raced[q]) =>
              LET doc == DocFile(effect(snapshot[q], op[q]))
              IN IF file.kind = "zero"
                 THEN file' = doc
                 ELSE file' = doc \/ (file'.kind = "garbled" /\ get_store(file') = DefaultStore)
        /\ saved_without_error
      ]_vars

\* The lost update: both shells have saved and ended with status 0; `set k1 v1`
\* completed and no later invocation set or deleted k1, yet the file is a
\* document without k1: it holds the other invocation's `set k2 v2` alone.
C10_Witness ==
    /\ pc[1] = "done" /\ pc[2] = "done"
    /\ saves[1] = 1 /\ saves[2] = 1 /\ exitCode[1] = 0 /\ exitCode[2] = 0
    /\ expect["k1"] = "v1"
    /\ file.kind = "doc"
    /\ get_key("k1", persisted_kvs) = None
    /\ get_key("k2", persisted_kvs) = "v2"

no_error(o) == \A i \in 1..Len(o) : o[i].ev # "error"

\* C12 (one shell): on a store without key k, `get k` prints the empty line
\* and never changes the file; `del k` goes on to its save, the store the
\* save leaves is the store the invocation loaded, and it prints the empty
\* line; both then run their hooks and end with status 0, no error message
\* put out.
C12_AbsentKey ==
    [][\A p \in Procs :
        /\ (steps(p) /\ pc[p] = "run" /\ op[p].kind = "get"
                /\ get_key(op[p].key, persisted_kvs) = None) =>
              /\ out'[p] = <<print_res(None)>>
              /\ pc'[p] = "run_hooks" /\ file' = file
        /\ (steps(p) /\ pc[p] = "run" /\ op[p].kind = "del"
                /\ get_key(op[p].key, persisted_kvs) = None) =>
              /\ out'[p] = <<>> /\ pc'[p] = "set_len" /\ file' = file
              /\ snapshot'[p] = get_store(file)
        /\ (steps(p) /\ pc[p] = "set_len" /\ op[p].kind = "del") =>
              get_store(file) = snapshot[p]
        /\ (steps(p) /\ pc[p] = "write_all" /\ op[p].kind = "del"
                /\ get_key(op[p].key, snapshot[p].kvs) = None) =>
              /\ get_store(file') = snapshot[p]
              /\ out'[p] = <<print_res(None)>>
        /\ (steps(p) /\ pc[p] = "run_hooks" /\ op[p].kind \in {"get", "del"}) =>
              /\ pc'[p] = "done" /\ exitCode'[p] = 0 /\ no_error(out'[p])
              /\ file' = file
      ]_vars

\* A `del k1` on a store with k2 -> v2 and without k1 has saved, printed the
\* empty line and ended with status 0; the store is as it was
C12_Witness ==
    /\ pc[Main] = "done" /\ exitCode[Main] = 0 /\ saves[Main] = 1
    /\ out[Main] = <<print_res(None)>>
    /\ ~gone["k1"] /\ expect["k1"] = None /\ expect["k2"] = "v2"
    /\ persisted_kvs = [DefaultStore.kvs EXCEPT !["k2"] = "v2"]
    /\ Len(persisted_hooks) = 1

\* C13 (one shell that edits the store): the save of `set k v` leaves the
\* store the invocation loaded with k -> v, whether or not k had a value, and
\* the invocation ends with status 0 and no error message; when the loaded
\* store has k -> v already, as after a `set k v`, the store is left as it
\* was.  The same for `cmd add n c` and the CommandMap.
C13_IdempotentUpsert ==
    [][\A p \in Procs :
        /\ (steps(p) /\ pc[p] = "run" /\ op[p].kind \in {"set", "cmd_add"}) =>
              snapshot'[p] = get_store(file)
        /\ (steps(p) /\ pc[p] = "write_all" /\ op[p].kind = "set") =>
              /\ get_store(file').kvs = [snapshot[p].kvs EXCEPT ![op[p].key] = op[p].val]
              /\ snapshot[p].kvs[op[p].key] = op[p].val => get_store(file') = snapshot[p]
              /\ no_error(out'[p])
        /\ (steps(p) /\ pc[p] = "run_hooks" /\ op[p].kind = "set") =>
              /\ pc'[p] = "done" /\ exitCode'[p] = 0 /\ no_error(out'[p])
        /\ (steps(p) /\ pc[p] = "write_all" /\ op[p].kind = "cmd_add") =>
              /\ get_store(file').cmds = [snapshot[p].cmds EXCEPT ![op[p].cmd] = op[p].cval]
              /\ snapshot[p].cmds[op[p].cmd] = op[p].cval => get_store(file') = snapshot[p]
              /\ pc'[p] = "done" /\ exitCode'[p] = 0 /\ out'[p] = <<>>
      ]_vars

\* After `cmd add c1 ls` and a `set k1 v1`, a second `set k1 v1` has saved:
\* it had loaded k1 -> v1 and the store is the one it loaded
C13_Witness ==
    /\ started = 3
    /\ pc[Main] = "run_hooks" /\ op[Main].kind = "set" /\ op[Main].val = "v1"
    /\ snapshot[Main].kvs["k1"] = "v1"
    /\ get_store(file) = snapshot[Main]
    /\ persisted_cmds["c1"] = "ls"

\* A `set k1 v2` has overwritten v1, and a `cmd add c1 ls` has overwritten sh
C13_WitnessOverwrite ==
    /\ started = 4
    /\ pc[Main] = "write_all" /\ op[Main].kind = "cmd_add" /\ op[Main].cval = "ls"
    /\ snapshot[Main].cmds["c1"] = "sh"
    /\ snapshot[Main].kvs["k1"] = "v2" /\ expect["k1"] = "v2"

\* A file that is not one whole document of a store: zero-length, cut short,
\* followed by other bytes, or with a run_on that is no variant name
malformed(f) ==
    \/ f.kind # "doc"
    \/ \E i \in 1..Len(f.json.hooks) : f.json.hooks[i].run_on \notin {"Get", "Set", "Del"}

\* What the step of p does is what it does on the empty store
as_on_empty(p) ==
    CASE pc[p] = "run" /\ op[p].kind = "get" ->
            out'[p] = <<print_res(None)>> /\ pc'[p] = "run_hooks"
      [] pc[p] = "run" /\ op[p].kind = "set" ->
            /\ kvstore'[p] = [DefaultStore EXCEPT !.kvs[op[p].key] = op[p].val]
            /\ pc'[p] = "set_len"
      [] pc[p] = "run" /\ op[p].kind = "del" ->
            /\ kvstore'[p] = DefaultStore /\ value'[p] = None
            /\ pc'[p] = "set_len"
      [] pc[p] = "run" /\ op[p].kind = "cmd_run" ->
            /\ out'[p] = <<error_msg("no_command", op[p].cmd)>>
            /\ pc'[p] = "done" /\ exitCode'[p] = 0
      [] pc[p] = "run" /\ op[p].kind = "cmd_add" ->
            /\ kvstore'[p] = [DefaultStore EXCEPT !.cmds[op[p].cmd] = op[p].cval]
            /\ pc'[p] = "set_len"
      [] pc[p] = "run" /\ op[p].kind \in {"list", "del_hook", "add_hook"} ->
            pc'[p] = "branch" /\ out'[p] = <<>>
      [] pc[p] = "branch" /\ op[p].kind = "list" ->
            pc'[p] = "done" /\ exitCode'[p] = 0 /\ no_error(out'[p])
      [] pc[p] = "branch" /\ op[p].kind = "add_hook" ->
            /\ Len(kvstore'[p].hooks) = 1 /\ kvstore'[p].hooks[1].name = op[p].hook
            /\ kvstore'[p].kvs = DefaultStore.kvs /\ kvstore'[p].cmds = DefaultStore.cmds
            /\ pc'[p] = "set_len"
      [] pc[p] = "branch" /\ op[p].kind = "del_hook" ->
            out'[p] = <<error_msg("no_hook", op[p].hook)>> /\ pc'[p] = "done"
      [] pc[p] = "run_hooks" ->
            out'[p] = out[p] /\ pc'[p] = "done" /\ exitCode'[p] = 0

Tokens == {"get", "set", "del", "Get", "Set", "Del", "GET", "put", ""}

\* Formatting and parsing on the command line: the three lowercase tokens,
\* back and forth, and no other token parses
lowercase_round_trip ==
    /\ \A o \in OpType : fmt(o) \in {"get", "set", "del"}
    /\ \A o \in OpType : from_str_ok(fmt(o)) /\ from_str(fmt(o)) = o
    /\ \A t \in Tokens : from_str_ok(t) <=> t \in {"get", "set", "del"}

\* C15 as the specification states it: every run_on in the file is the
\* lowercase token that formatting produces and the command line accepts;
\* parsing the formatted token of a variant returns the variant; no other
\* token parses.
C15_LowercaseTokensAsStated ==
    /\ \A i \in 1..Len(file.json.hooks) :
            /\ file.json.hooks[i].run_on \in {fmt(o) : o \in OpType}
            /\ from_str_ok(file.json.hooks[i].run_on)
    /\ lowercase_round_trip

\* C15, amended (one shell that edits the store): the lowercase tokens are
\* those of the command line and of formatting, back and forth, and no other
\* token parses there.  In the file a run_on is the name of the variant (Get,
\* Set, Del): the hook an add-hook with trigger t saves carries the name of
\* the variant t parses to, which the command line would reject; a load
\* accepts the three names and no other token, returns the variant written,
\* and formatting that variant gives t again.
C15_Tokens ==
    [][/\ lowercase_round_trip
       /\ \A o \in OpType :
            /\ SerializeOpType(o) \in {"Get", "Set", "Del"}
            /\ DeserializeOpTypeOk(SerializeOpType(o))
            /\ DeserializeOpType(SerializeOpType(o)) = o
       /\ \A t \in Tokens : DeserializeOpTypeOk(t) <=> t \in {"Get", "Set", "Del"}
       /\ \A i \in 1..Len(file.json.hooks) :
            /\ file.json.hooks[i].run_on \in {"Get", "Set", "Del"}
            /\ ~from_str_ok(file.json.hooks[i].run_on)
            /\ file.kind = "doc" =>
                    SerializeOpType(persisted_hooks[i].run_on) = file.json.hooks[i].run_on
       /\ \A p \in Procs :
            (steps(p) /\ pc[p] = "write_all" /\ op[p].kind = "add_hook"
                    /\ file'.kind = "doc") =>
                LET n == Len(file'.json.hooks)
                    written == file'.json.hooks[n].run_on
                IN /\ n > 0 /\ file'.json.hooks[n].name = op[p].hook
                   /\ written = SerializeOpType(from_str(op[p].trig))
                   /\ written # op[p].trig
                   /\ fmt(DeserializeOpType(written)) = op[p].trig
      ]_vars

\* An add-hook with the trigger del has saved and ended: the file has the
\* hook with the run_on Del, and a load returns the variant Del
C15_Witness ==
    /\ pc[Main] = "done" /\ saves[Main] = 1
    /\ file.kind = "doc" /\ Len(file.json.hooks) = 1
    /\ file.json.hooks[1].run_on = "Del"
    /\ persisted_hooks[1].run_on = Del /\ fmt(persisted_hooks[1].run_on) = "del"

\* C16 (two shells): the hooks a get, set or del invocation runs are those of
\* the store in the file at its run_hooks step, matched on its operation and
\* key and resolved against the cmds of that same store, whatever the store
\* was that the invocation loaded when it started: a hook or command another
\* invocation has saved since then counts, one that is no longer in the file
\* does not.
C16_HooksAtTriggerTime ==
    [][\A p \in Procs :
        (steps(p) /\ pc[p] = "run_hooks") =>
            LET now == get_store(file)
                M == matching(now, op[p].key, kind_of(op[p]))
                E == SubSeq(out'[p], Len(out[p]) + 1, Len(out'[p]))
            IN /\ Len(E) = Cardinality(M)
               /\ \A j \in 1..Len(E) :
                      LET h == now.hooks[nth(M, j)]
                      IN E[j] = IF get_key(h.cmd_name, now.cmds) = None
                                THEN bad_hook(h.name)
                                ELSE run_command(h.cmd_name, get_key(h.cmd_name, now.cmds))
      ]_vars

\* `get k1` started on the empty store; the other shell's add-hook of h1 for
\* get on k1 saved before the get ran its hooks, and the get has put out the
\* message of h1, whose command is missing
C16_Witness ==
    /\ started = 2
    /\ pc[1] = "done" /\ pc[2] = "done" /\ saves[2] = 1
    /\ out[1] = <<print_res(None), bad_hook("h1")>>
    /\ Len(persisted_hooks) = 1 /\ persisted_hooks[1].name = "h1"

\* C17 as the specification states it: an invocation loads the store once and
\* never again.
C17_OneLoadAsStated ==
    \A p \in Procs :
        /\ loads[p] <= 1
        /\ pc[p] \notin {"idle", "run"} => loads[p] = 1

\* The place of a position in the pass of an invocation
rank(at) ==
    CASE at = "idle" -> 0 [] at = "run" -> 1 [] at = "branch" -> 2 [] at = "set_len" -> 3
      [] at = "write_all" -> 4 [] at = "run_hooks" -> 5 [] at = "done" -> 6

\* C17, amended (two shells): an invocation is one pass, every step of which
\* moves it forward, and it loads the store first; but only cmd run and cmd
\* add load it exactly once.  list, add-hook and del-hook load it a second
\* time right after the first load, and get, set and del load it a second
\* time in run_hooks, after the result of get is printed and after the save
\* of set and del.  No invocation loads more than twice.
C17_LoadsPerInvocation ==
    [][\A p \in Procs :
        steps(p) =>
            IF pc[p] \in {"idle", "done"}
            THEN pc'[p] = "run" /\ loads'[p] = 0
            ELSE /\ rank(pc'[p]) > rank(pc[p])
                 /\ loads'[p] \in {loads[p], loads[p] + 1}
                 /\ pc[p] = "run" => loads'[p] = 1
                 /\ loads'[p] > loads[p] <=> pc[p] \in {"run", "branch", "run_hooks"}
                 /\ pc'[p] = "done" =>
                        loads'[p] = IF op[p].kind \in {"cmd_run", "cmd_add"} THEN 1 ELSE 2
      ]_vars

\* A get has ended after two loads, having printed v1, and a set after two
\* loads and one save
C17_Witness ==
    /\ pc[1] = "done" /\ loads[1] = 2 /\ saves[1] = 0 /\ out[1] = <<print_res("v1")>>
    /\ pc[2] = "done" /\ loads[2] = 2 /\ saves[2] = 1 /\ expect["k1"] = "v1"

is_print(e) == e.ev = "print"

\* C18 as the specification states it: a get or del invocation that has not
\* yet run its hooks has not printed its result.
C18_OutputAfterHooksAsStated ==
    \A p \in Procs :
        (op[p].kind \in {"get", "del"} /\ pc[p] \notin {"idle", "done"}) =>
            SelectSeq(out[p], is_print) = <<>>

\* C18, amended (one shell, on any file found): a get or del invocation that
\* is about to run its hooks has printed its result, and nothing else; a del
\* prints it after its save; the step that runs the hooks leaves the result
\* first in the output and puts only spawns and bad-hook messages after it.
C18_OutputBeforeHooks ==
    [][\A p \in Procs :
        /\ (op[p].kind \in {"get", "del"} /\ pc[p] = "run_hooks") =>
              /\ Len(out[p]) = 1 /\ is_print(out[p][1])
              /\ op[p].kind = "del" => saves[p] = 1
        /\ (op[p].kind = "del" /\ pc[p] \in {"run", "set_len", "write_all"}) =>
              out[p] = <<>>
        /\ (steps(p) /\ op[p].kind \in {"get", "del"} /\ pc[p] = "run_hooks") =>
              /\ Len(out'[p]) >= 1 /\ out'[p][1] = out[p][1]
              /\ \A i \in 2..Len(out'[p]) : is_hook_event(out'[p][i])
      ]_vars

\* `get k1` on the store found, which has k1 -> v1 and a hook for get on k1,
\* has printed v1 and then spawned the hook's command
C18_Witness ==
    /\ started = 1 /\ pc[Main] = "done"
    /\ out[Main] = <<print_res("v1"), run_command("c1", "sh")>>
    /\ file = DocFile(FoundStore)

\* The sequence s without its i-th element
without(s, i) == [j \in 1..(Len(s) - 1) |-> IF j < i THEN s[j] ELSE s[j + 1]]

\* C19 (one shell that edits the store): a del-hook that finds a hook of its
\* name in the store goes on to save, and the save leaves the hook sequence
\* it loaded without that one hook: one hook fewer, none of that name, the
\* others in their order.  An add-hook whose name is free goes on to save,
\* and the save leaves the hook sequence it loaded, in its order, with the
\* new hook (name, command, trigger and key of the command line) at the end.
C19_HookSequence ==
    [][\A p \in Procs :
        /\ (steps(p) /\ pc[p] = "branch" /\ op[p].kind \in {"del_hook", "add_hook"}) =>
              LET found_it == \E i \in 1..Len(persisted_hooks) :
                                  persisted_hooks[i].name = op[p].hook
              IN IF found_it <=> op[p].kind = "del_hook"
                 THEN pc'[p] = "set_len" /\ snapshot'[p] = get_store(file)
                 ELSE pc'[p] = "done" /\ file' = file
        /\ (steps(p) /\ pc[p] = "write_all" /\ op[p].kind = "del_hook") =>
              LET old == snapshot[p].hooks
                  new == get_store(file').hooks
              IN /\ Len(new) = Len(old) - 1
                 /\ \A j \in 1..Len(new) : new[j].name # op[p].hook
                 /\ \E i \in 1..Len(old) : old[i].name = op[p].hook /\ new = without(old, i)
                 /\ pc'[p] = "done" /\ exitCode'[p] = 0
        /\ (steps(p) /\ pc[p] = "write_all" /\ op[p].kind = "add_hook") =>
              LET old == snapshot[p].hooks
                  new == get_store(file').hooks
              IN /\ Len(new) = Len(old) + 1
                 /\ SubSeq(new, 1, Len(old)) = old
                 /\ new[Len(new)] = [name |-> op[p].hook, cmd_name |-> op[p].cmd,
                                     run_on |-> CHOOSE o \in OpType : fmt(o) = op[p].trig,
                                     key |-> op[p].key]
                 /\ pc'[p] = "done" /\ exitCode'[p] = 0
      ]_vars

\* After the add-hooks of h1, h2 and h3, a `del-hook h1` has taken the first
\* of the three hooks out and is about to save h2, h3 in that order
C19_Witness ==
    /\ started = 4
    /\ pc[Main] = "set_len" /\ op[Main].kind = "del_hook" /\ op[Main].hook = "h1"
    /\ Len(persisted_hooks) = 3 /\ snapshot[Main].hooks = persisted_hooks
    /\ Len(kvstore[Main].hooks) = 2
    /\ kvstore[Main].hooks[1].name = "h2" /\ kvstore[Main].hooks[2].name = "h3"

\* The maps f and g agree on every key but k
same_but(f, g, k) == \A x \in DOMAIN f : x # k => f[x] = g[x]

\* C20 (one shell, on any file found): an invocation that saves has loaded
\* the store that is in the file until its save, and its save leaves that
\* store changed in one place only: `set k v` and `del k` in the entry of k
\* in kvs (v, and no entry), `cmd add n c` in the entry of n in cmds (c),
\* add-hook and del-hook in the hook sequence; the run_hooks step after the
\* save of set and del leaves the file as it is.
C20_Frames ==
    [][\A p \in Procs :
        /\ (steps(p) /\ pc'[p] = "set_len") =>
              snapshot'[p] = get_store(file) /\ file' = file
        /\ (steps(p) /\ pc[p] = "set_len") => get_store(file) = snapshot[p]
        /\ (steps(p) /\ pc[p] = "write_all") =>
              LET old == snapshot[p]
                  new == get_store(file')
              IN CASE op[p].kind \in {"set", "del"} ->
                        /\ same_but(new.kvs, old.kvs, op[p].key)
                        /\ new.kvs[op[p].key] = IF op[p].kind = "set" THEN op[p].val ELSE None
                        /\ new.cmds = old.cmds /\ new.hooks = old.hooks
                   [] op[p].kind = "cmd_add" ->
                        /\ same_but(new.cmds, old.cmds, op[p].cmd)
                        /\ new.cmds[op[p].cmd] = op[p].cval
                        /\ new.kvs = old.kvs /\ new.hooks = old.hooks
                   [] op[p].kind \in {"add_hook", "del_hook"} ->
                        /\ new.kvs = old.kvs /\ new.cmds = old.cmds
                        /\ new.hooks # old.hooks
        /\ (steps(p) /\ pc[p] = "run_hooks") => file' = file
      ]_vars

\* `set k2 v2` on the store found has saved: k1, the command and the hook are
\* what they were, and k2 has the value v2
C20_Witness ==
    /\ started = 1
    /\ pc[Main] = "run_hooks" /\ op[Main].kind = "set" /\ op[Main].key = "k2"
    /\ snapshot[Main] = FoundStore
    /\ get_store(file) = [FoundStore EXCEPT !.kvs["k2"] = "v2"]

====
